---- MODULE Spec2Model ----
(***************************************************************************)
(* Model of snapcast_monitor_kasa.py: the SystemController state machine,  *)
(* its AsyncTimer shutdown tasks, the outlet sequencing of _turn_on and    *)
(* _turn_off, and the polling loop of run() that drives update().          *)
(*                                                                         *)
(* The program runs on one asyncio event loop.  A coroutine runs without   *)
(* interruption between two awaits, so every action below is the code      *)
(* between one suspension point and the next.  Time is counted in ticks of *)
(* half a second (the polling period); a sleep may be resumed late, never  *)
(* early.                                                                  *)
(*                                                                         *)
(* The second part models snapcast_mpris_proxy.py: the PlaybackStatus      *)
(* property of MediaPlayer2PlayerInterface with the PropertiesChanged      *)
(* signals it emits, and the polling loop of run() with its reconnect      *)
(* path.  The two programs are separate processes; Spec runs the           *)
(* controller alone, SpecProxy the proxy alone, and SpecPair feeds every   *)
(* sample to both.                                                         *)
(***************************************************************************)
EXTENDS Integers, Sequences, FiniteSets, TLC

\* Length of self._device.children (the outlet chain).
NumPlugs == 2
\* Number of AsyncTimer objects that can exist at once (a dead one is reused).
MaxTimers == 2

\* asyncio.sleep(.5) of the polling loop is one tick.
TicksPerSecond == 2
\* AsyncTimer(10, self._turn_off), seconds.
ShortTimeout == 10
\* AsyncTimer(60, self._turn_off), seconds.
LongTimeout == 60
\* asyncio.sleep(1) between two outlet commands, seconds.
SettleDelay == 1
\* Number of most recent PropertiesChanged signals that are remembered.
MaxSignals == 3

PollTicks == TicksPerSecond \div 2
SettleTicks == SettleDelay * TicksPerSecond

Plugs == 1..NumPlugs
Timers == 1..MaxTimers

\* class State(IntEnum)
States == {"IDLE", "IDLE_COUNTDOWN", "MUTE", "ACTIVE"}

\* What update() reads of the client: client.muted and
\* client.group.stream_status == "idle".
Samples == [muted : BOOLEAN, stream_idle : BOOLEAN]

\* class PlaybackStatus(StrEnum)
PlaybackStatus == {"Playing", "Paused", "Stopped"}

\* client.group: "None", or the stream_status of the group the client is in.
Groups == {"None", "idle", "playing"}

VARIABLES
    state,      \* self._state
    timer,      \* self._timer: 0 is None, otherwise the AsyncTimer it refers to
    task,       \* the asyncio task of every AsyncTimer
    plug,       \* relay of every outlet: "unknown" until first commanded
    loop,       \* the coroutine run(): its polling sleep, or inside update()
    sample,     \* the status most recently read by update()
    cmdFailed,  \* history: some turn_on/turn_off has raised
    playback_status,  \* player._playback_status
    signals,    \* history: the last PropertiesChanged values emitted, oldest first
    client,     \* the proxy's client object as last synchronized
    proxy       \* the coroutine run() of the proxy: where it is suspended

cvars == <<state, timer, task, plug, loop, sample, cmdFailed>>
pvars == <<playback_status, signals, client, proxy>>
vars == <<state, timer, task, plug, loop, sample, cmdFailed,
          playback_status, signals, client, proxy>>

\* for plug in self._device.children: position i of the iteration.
OnOrder == [i \in Plugs |-> i]

\* (a variant that iterates the chain without reversed())
OffOrderForward == [i \in Plugs |-> i]

\* for plug in reversed(self._device.children): position i of the iteration.
OffOrder == [i \in Plugs |-> NumPlugs + 1 - i]

\* A task that has not finished: sleeping out its timeout ("sleep"), awaiting
\* plug.turn_off() ("turn_off") or sleeping out the settle delay ("settle").
Alive(r) == r.phase \in {"sleep", "turn_off", "settle"}

\* A task inside _turn_off: it has issued a turn_off and has not finished.
InFlight(r) == r.phase \in {"turn_off", "settle"}

Unused == [phase |-> "unused", timeout |-> 0, left |-> 0, idx |-> 0, cmds |-> <<>>]

\* A finished task; timeout and cmds keep what it was started with and the
\* outlets it commanded.
Dead(how, r) ==
    [phase |-> how, timeout |-> r.timeout, left |-> 0, idx |-> 0, cmds |-> r.cmds]

\* (a variant whose _run awaits the callback without sleeping first)
FreshNoDelay(timeout) ==
    [phase |-> "sleep", timeout |-> timeout, left |-> 0, idx |-> 0, cmds |-> <<>>]

\* AsyncTimer(timeout, callback).start(): the task begins asyncio.sleep(timeout).
Fresh(timeout) ==
    [phase |-> "sleep", timeout |-> timeout, left |-> timeout * TicksPerSecond,
     idx |-> 0, cmds |-> <<>>]

\* (a variant whose cancel() has no effect on the task)
CancelTaskNever(tk, t) == tk

\* AsyncTimer.cancel(): Task.cancel() throws CancelledError into the await the
\* task is suspended in; a finished task is left as it is.
CancelTask(tk, t) ==
    IF t # 0 /\ Alive(tk[t]) THEN [tk EXCEPT ![t] = Dead("cancelled", @)] ELSE tk

\* The relay of the outlet whose turn_off was being awaited when the task was
\* cancelled: the request may or may not have reached the device (hit).
PlugAfterCancel(pl, tk, t, hit) ==
    IF t # 0 /\ tk[t].phase = "turn_off" /\ hit
    THEN [pl EXCEPT ![OffOrder[tk[t].idx]] = "off"]
    ELSE pl

\* The object a new AsyncTimer occupies: a finished one, other than the one
\* self._timer referred to last when there is a choice.
FreeSlots(tk, avoid) ==
    LET dead == {t \in Timers : ~Alive(tk[t])}
    IN IF dead \ {avoid} # {} THEN dead \ {avoid} ELSE dead

NewSlot(tk, avoid) == CHOOSE t \in FreeSlots(tk, avoid) : \A u \in FreeSlots(tk, avoid) : t <= u

\* (a variant that tests client.muted before stream_idle)
BranchMutedFirst(m, s) ==
    IF ~(m \/ s) THEN "playing" ELSE IF m THEN "muted" ELSE "stream_idle"

\* The if / elif / elif of update().
Branch(m, s) ==
    IF ~(m \/ s) THEN "playing" ELSE IF s THEN "stream_idle" ELSE "muted"

\* (a variant whose early return tests State.IDLE only)
StreamIdleNoopIdleOnly(st) == st = "IDLE"

\* if self._state == State.IDLE or self._state == State.IDLE_COUNTDOWN: return
StreamIdleNoop(st) == st = "IDLE" \/ st = "IDLE_COUNTDOWN"

\* if self._state == State.MUTE or self._state == State.IDLE: return
MutedNoop(st) == st = "MUTE" \/ st = "IDLE"

\* (a variant that never cancels the old timer on the stream-idle path)
StreamIdleCancelsNever(st, tm) == FALSE

\* if self._state == State.MUTE and self._timer is not None
StreamIdleCancels(st, tm) == st = "MUTE" /\ tm # 0

\* (a variant that powers up from every state but ACTIVE)
PowerOnUnlessActive(st) == st # "ACTIVE"

\* if self._state == State.IDLE: await self._turn_on()
PowerOnNeeded(st) == st = "IDLE"

Sleeping == [pc |-> "sleep", left |-> PollTicks, idx |-> 0, cmds |-> loop.cmds]

\* SystemController.__init__ and run() of the monitor up to its first sleep.
InitController ==
    /\ state = "IDLE"
    /\ timer = 0
    /\ task = [t \in Timers |-> Unused]
    /\ plug = [p \in Plugs |-> "unknown"]
    /\ loop = [pc |-> "sleep", left |-> PollTicks, idx |-> 0, cmds |-> <<>>]
    /\ sample \in Samples
    /\ cmdFailed = FALSE

\* MediaPlayer2PlayerInterface.__init__ and run() of the proxy up to its first
\* server.status(): the client was found, whatever its group and mute are.
InitProxy ==
    /\ playback_status = "Stopped"
    /\ signals = <<>>
    /\ client \in [group : Groups, muted : BOOLEAN]
    /\ proxy = [pc |-> "status", synced |-> FALSE]

\* Both processes after their construction.
InitPair == InitController /\ InitProxy

\* The monitor process alone: the proxy is constructed and never scheduled.
Init ==
    /\ InitController
    /\ InitProxy
    /\ client = [group |-> "None", muted |-> FALSE]

\* update(), not client_idle, after the power-up if there was one:
\* self._state = ACTIVE, then the shutdown timer is cancelled and dropped.
Activate(hit) ==
    /\ state' = "ACTIVE"
    /\ task' = IF timer # 0 THEN CancelTask(task, timer) ELSE task
    /\ plug' = IF timer # 0 THEN PlugAfterCancel(plug, task, timer, hit) ELSE plug
    /\ timer' = 0

\* update(), the elif branches past their early return: the old timer is
\* cancelled if `cancels`, the state is set and a new timer is started.
Countdown(cancels, st, timeout, hit) ==
    LET tk == IF cancels THEN CancelTask(task, timer) ELSE task
        n == NewSlot(tk, timer)
    IN /\ FreeSlots(tk, timer) # {}
       /\ state' = st
       /\ task' = [tk EXCEPT ![n] = Fresh(timeout)]
       /\ plug' = IF cancels THEN PlugAfterCancel(plug, task, timer, hit) ELSE plug
       /\ timer' = n

\* One pass of the while loop of run(): the .5 s sleep is over, the status is
\* fetched and update(client) runs up to its first await or to its end.
Poll(m, s, hit) ==
    /\ loop.pc = "sleep"
    /\ loop.left = 0
    /\ sample' = [muted |-> m, stream_idle |-> s]
    /\ UNCHANGED cmdFailed
    /\ CASE Branch(m, s) = "playing" ->
              IF PowerOnNeeded(state)
              THEN /\ loop' = [pc |-> "turn_on", left |-> 0, idx |-> 1,
                               cmds |-> <<OnOrder[1]>>]
                   /\ UNCHANGED <<state, timer, task, plug>>
              ELSE /\ Activate(hit)
                   /\ loop' = Sleeping
         [] Branch(m, s) = "stream_idle" ->
              IF StreamIdleNoop(state)
              THEN /\ loop' = Sleeping
                   /\ UNCHANGED <<state, timer, task, plug>>
              ELSE /\ Countdown(StreamIdleCancels(state, timer), "IDLE_COUNTDOWN",
                                ShortTimeout, hit)
                   /\ loop' = Sleeping
         [] Branch(m, s) = "muted" ->
              IF MutedNoop(state)
              THEN /\ loop' = Sleeping
                   /\ UNCHANGED <<state, timer, task, plug>>
              ELSE /\ Countdown(timer # 0, "MUTE", LongTimeout, hit)
                   /\ loop' = Sleeping

\* _turn_on: await plug.turn_on() returns.
TurnOnReturn ==
    /\ loop.pc = "turn_on"
    /\ plug' = [plug EXCEPT ![OnOrder[loop.idx]] = "on"]
    /\ loop' = [loop EXCEPT !.pc = "settle", !.left = SettleTicks]
    /\ UNCHANGED <<state, timer, task, sample, cmdFailed>>

\* _turn_on: await plug.turn_on() raises.  Nothing catches it in update() or in
\* run(), so asyncio.run() cancels the remaining tasks and the process ends.
TurnOnFail ==
    /\ loop.pc = "turn_on"
    /\ loop' = [loop EXCEPT !.pc = "crashed", !.left = 0, !.idx = 0]
    /\ task' = [t \in Timers |-> IF Alive(task[t]) THEN Dead("cancelled", task[t])
                                 ELSE task[t]]
    /\ cmdFailed' = TRUE
    /\ UNCHANGED <<state, timer, plug, sample>>

\* _turn_on: asyncio.sleep(1) is over; the next outlet is commanded, or the
\* loop ends, self._state = ACTIVE and update() runs to its end.
TurnOnSettled(hit) ==
    /\ loop.pc = "settle"
    /\ loop.left = 0
    /\ IF loop.idx < NumPlugs
       THEN /\ loop' = [loop EXCEPT !.pc = "turn_on", !.idx = @ + 1,
                                    !.cmds = Append(@, OnOrder[loop.idx + 1])]
            /\ UNCHANGED <<state, timer, task, plug>>
       ELSE /\ Activate(hit)
            /\ loop' = Sleeping
    /\ UNCHANGED <<sample, cmdFailed>>

\* (a variant that cancels self._timer on entry to _turn_off, before the loop)
TimerFireSelfCancel(t) ==
    /\ task[t].phase = "sleep"
    /\ task[t].left = 0
    /\ task' = [task EXCEPT ![t] = Dead("cancelled", @)]
    /\ timer' = IF timer = t THEN 0 ELSE timer
    /\ UNCHANGED <<state, plug, loop, sample, cmdFailed>>

\* AsyncTimer._run: asyncio.sleep(timeout) is over, the callback _turn_off
\* starts and awaits the first plug.turn_off().
TimerFire(t) ==
    /\ task[t].phase = "sleep"
    /\ task[t].left = 0
    /\ task' = [task EXCEPT ![t] = [@ EXCEPT !.phase = "turn_off", !.idx = 1,
                                             !.cmds = <<OffOrder[1]>>]]
    /\ UNCHANGED <<state, timer, plug, loop, sample, cmdFailed>>

\* _turn_off: await plug.turn_off() returns.
TurnOffReturn(t) ==
    /\ task[t].phase = "turn_off"
    /\ plug' = [plug EXCEPT ![OffOrder[task[t].idx]] = "off"]
    /\ task' = [task EXCEPT ![t] = [@ EXCEPT !.phase = "settle", !.left = SettleTicks]]
    /\ UNCHANGED <<state, timer, loop, sample, cmdFailed>>

\* _turn_off: await plug.turn_off() raises; the task ends with the exception.
TurnOffFail(t) ==
    /\ task[t].phase = "turn_off"
    /\ task' = [task EXCEPT ![t] = Dead("failed", @)]
    /\ cmdFailed' = TRUE
    /\ UNCHANGED <<state, timer, plug, loop, sample>>

\* (a variant of _turn_off that ends without cancelling and dropping self._timer)
TurnOffSettledKeepsTimer(t) ==
    /\ task[t].phase = "settle"
    /\ task[t].left = 0
    /\ IF task[t].idx < NumPlugs
       THEN /\ task' = [task EXCEPT ![t] = [@ EXCEPT !.phase = "turn_off", !.idx = @ + 1,
                                  !.cmds = Append(@, OffOrder[task[t].idx + 1])]]
            /\ UNCHANGED <<state, timer>>
       ELSE /\ state' = "IDLE"
            /\ task' = [task EXCEPT ![t] = Dead("done", @)]
            /\ UNCHANGED timer
    /\ UNCHANGED <<plug, loop, sample, cmdFailed>>

\* _turn_off: asyncio.sleep(1) is over; the next outlet is commanded, or the
\* loop ends: self._state = IDLE, self._timer is cancelled and dropped and
\* the task finishes.
TurnOffSettled(t) ==
    /\ task[t].phase = "settle"
    /\ task[t].left = 0
    /\ IF task[t].idx < NumPlugs
       THEN /\ task' = [task EXCEPT ![t] = [@ EXCEPT !.phase = "turn_off", !.idx = @ + 1,
                                  !.cmds = Append(@, OffOrder[task[t].idx + 1])]]
            /\ UNCHANGED <<state, timer>>
       ELSE /\ state' = "IDLE"
            /\ task' = [CancelTask(task, IF timer = t THEN 0 ELSE timer)
                            EXCEPT ![t] = Dead("done", @)]
            /\ timer' = 0
    /\ UNCHANGED <<plug, loop, sample, cmdFailed>>

\* Half a second passes: every pending sleep has that much less to wait.
Tick ==
    /\ \/ loop.left > 0
       \/ \E t \in Timers : task[t].left > 0
    /\ loop' = [loop EXCEPT !.left = IF @ > 0 THEN @ - 1 ELSE 0]
    /\ task' = [t \in Timers |-> [task[t] EXCEPT !.left = IF @ > 0 THEN @ - 1 ELSE 0]]
    /\ UNCHANGED <<state, timer, plug, sample, cmdFailed>>

(***************************************************************************)
(* snapcast_mpris_proxy.py                                                 *)
(***************************************************************************)

\* emit_properties_changed({"PlaybackStatus": ...}) as the bus sees it: the
\* value is appended, and only the last MaxSignals values are kept.
Emit(sig, status) ==
    LET all == Append(sig, status)
    IN IF Len(all) > MaxSignals THEN Tail(all) ELSE all

\* (a variant of the setter without the equality test)
SetPlaybackStatusAlways(status) ==
    /\ playback_status' = status
    /\ signals' = Emit(signals, status)

\* playback_status.setter: nothing happens if the status is the stored one,
\* otherwise it is stored and PropertiesChanged is emitted.
SetPlaybackStatus(status) ==
    IF playback_status = status
    THEN UNCHANGED <<playback_status, signals>>
    ELSE /\ playback_status' = status
         /\ signals' = Emit(signals, status)

\* stream_idle = client.group.stream_status == "idle"
\*               if client.group is not None else True
StreamIdle(c) == IF c.group # "None" THEN c.group = "idle" ELSE TRUE

\* (a variant that looks at the mute flag only)
ClientIdleMutedOnly(c) == c.muted

\* client_idle = client.muted or stream_idle
ClientIdle(c) == c.muted \/ StreamIdle(c)

\* One pass of the while loop of run() with a status that is a dict: the
\* server object is synchronized, the playback status is set from the client
\* and the .5 s sleep starts.
StatusOk(g, m) ==
    LET c == [group |-> g, muted |-> m]
    IN /\ proxy.pc = "status"
       /\ client' = c
       /\ IF ~ClientIdle(c) THEN SetPlaybackStatus("Playing")
          ELSE IF StreamIdle(c) THEN SetPlaybackStatus("Stopped")
          ELSE IF c.muted THEN SetPlaybackStatus("Paused")
          ELSE UNCHANGED <<playback_status, signals>>
       /\ proxy' = [pc |-> "sleep", synced |-> TRUE]

\* server.status() gives no dict: a warning, then _reconnect() stops the
\* server and awaits server.start().
StatusError ==
    /\ proxy.pc = "status"
    /\ proxy' = [proxy EXCEPT !.pc = "reconnect"]
    /\ UNCHANGED <<playback_status, signals, client>>

\* _reconnect: server.start() returns; back to the top of the loop of run().
StartOk ==
    /\ proxy.pc = "reconnect"
    /\ proxy' = [proxy EXCEPT !.pc = "status"]
    /\ UNCHANGED <<playback_status, signals, client>>

\* _reconnect: server.start() raises OSError; asyncio.sleep(2) starts.
StartError ==
    /\ proxy.pc = "reconnect"
    /\ proxy' = [proxy EXCEPT !.pc = "backoff"]
    /\ UNCHANGED <<playback_status, signals, client>>

\* _reconnect: asyncio.sleep(2) is over, server.start() is tried again.
BackoffOver ==
    /\ proxy.pc = "backoff"
    /\ proxy' = [proxy EXCEPT !.pc = "reconnect"]
    /\ UNCHANGED <<playback_status, signals, client>>

\* run(): asyncio.sleep(.5) is over, the next status is requested.
SleepOver ==
    /\ proxy.pc = "sleep"
    /\ proxy' = [proxy EXCEPT !.pc = "status"]
    /\ UNCHANGED <<playback_status, signals, client>>

\* Both programs read the same status of a client that is in a group: the
\* monitor enters update() with it and the proxy sets its playback status.
SamePoll(m, s, hit) ==
    /\ Poll(m, s, hit)
    /\ StatusOk(IF s THEN "idle" ELSE "playing", m)

(***************************************************************************)
(* Specifications.                                                         *)
(***************************************************************************)

Next ==
    \/ (\E m \in BOOLEAN, s \in BOOLEAN, hit \in BOOLEAN : Poll(m, s, hit)) /\ UNCHANGED pvars
    \/ TurnOnReturn /\ UNCHANGED pvars
    \/ TurnOnFail /\ UNCHANGED pvars
    \/ (\E hit \in BOOLEAN : TurnOnSettled(hit)) /\ UNCHANGED pvars
    \/ (\E t \in Timers : TimerFire(t)) /\ UNCHANGED pvars
    \/ (\E t \in Timers : TurnOffReturn(t)) /\ UNCHANGED pvars
    \/ (\E t \in Timers : TurnOffFail(t)) /\ UNCHANGED pvars
    \/ (\E t \in Timers : TurnOffSettled(t)) /\ UNCHANGED pvars
    \/ Tick /\ UNCHANGED pvars

Spec == Init /\ [][Next]_vars

\* The event loop runs every ready coroutine, time passes, an awaited outlet
\* command ends (by returning or by raising) and run() polls for ever.
Fairness ==
    /\ WF_vars(Tick /\ UNCHANGED pvars)
    /\ WF_vars((\E m \in BOOLEAN, s \in BOOLEAN, hit \in BOOLEAN : Poll(m, s, hit))
                  /\ UNCHANGED pvars)
    /\ WF_vars((TurnOnReturn \/ TurnOnFail) /\ UNCHANGED pvars)
    /\ WF_vars((\E hit \in BOOLEAN : TurnOnSettled(hit)) /\ UNCHANGED pvars)
    /\ \A t \in Timers :
          /\ WF_vars(TimerFire(t) /\ UNCHANGED pvars)
          /\ WF_vars((TurnOffReturn(t) \/ TurnOffFail(t)) /\ UNCHANGED pvars)
          /\ WF_vars(TurnOffSettled(t) /\ UNCHANGED pvars)

\* The proxy process alone.
NextProxy ==
    \/ (\E g \in Groups, m \in BOOLEAN : StatusOk(g, m)) /\ UNCHANGED cvars
    \/ StatusError /\ UNCHANGED cvars
    \/ StartOk /\ UNCHANGED cvars
    \/ StartError /\ UNCHANGED cvars
    \/ BackoffOver /\ UNCHANGED cvars
    \/ SleepOver /\ UNCHANGED cvars

SpecProxy == InitPair /\ [][NextProxy]_vars

\* Both processes, every status read by the two of them at once.
NextPair ==
    \/ \E m \in BOOLEAN, s \in BOOLEAN, hit \in BOOLEAN : SamePoll(m, s, hit)
    \/ TurnOnReturn /\ UNCHANGED pvars
    \/ TurnOnFail /\ UNCHANGED pvars
    \/ (\E hit \in BOOLEAN : TurnOnSettled(hit)) /\ UNCHANGED pvars
    \/ (\E t \in Timers : TimerFire(t)) /\ UNCHANGED pvars
    \/ (\E t \in Timers : TurnOffReturn(t)) /\ UNCHANGED pvars
    \/ (\E t \in Timers : TurnOffFail(t)) /\ UNCHANGED pvars
    \/ (\E t \in Timers : TurnOffSettled(t)) /\ UNCHANGED pvars
    \/ Tick /\ UNCHANGED pvars
    \/ SleepOver /\ UNCHANGED cvars

SpecPair == InitPair /\ [][NextPair]_vars

SpecLive == Spec /\ Fairness

(***************************************************************************)
(* Vocabulary of the properties.                                           *)
(***************************************************************************)

\* A step that enters update(): the polling sleep was over and run() moved.
UpdateStep == loop.pc = "sleep" /\ loop.left = 0 /\ loop' # loop

\* No update() call is in progress.
BetweenUpdates == loop.pc = "sleep"

AllOn == \A p \in Plugs : plug[p] = "on"
AllOff == \A p \in Plugs : plug[p] = "off"

AliveTimers == {t \in Timers : Alive(task[t])}
InFlightTimers == {t \in Timers : InFlight(task[t])}

\* cmds lists the chain from outlet 1 upwards, as far as it goes.
ChainOrder(cmds) == \A i \in 1..Len(cmds) : cmds[i] = i
\* cmds lists the chain from the last outlet downwards, as far as it goes.
ReverseOrder(cmds) == \A i \in 1..Len(cmds) : cmds[i] = NumPlugs + 1 - i

\* Timer t has just been started with this timeout.
Started(t, timeout) == task'[t] = Fresh(timeout) /\ task[t] # task'[t]

(***************************************************************************)
(* Properties.                                                             *)
(***************************************************************************)

\* C1: a playing sample received in IDLE_COUNTDOWN while the 10 s timer task is
\* still in its sleep cancels the task, sets ACTIVE and drops the reference
\* without any outlet command; a task cancelled before it issued a turn_off
\* never issues one (it stays as it is until a new timer takes its place).
C1_CancelBeforeFire ==
    [][\A t \in Timers :
         /\ ( /\ UpdateStep
              /\ ~sample'.muted /\ ~sample'.stream_idle
              /\ state = "IDLE_COUNTDOWN" /\ timer = t /\ task[t].phase = "sleep" )
            => ( /\ state' = "ACTIVE" /\ timer' = 0
                 /\ task'[t].phase = "cancelled" /\ task'[t].cmds = <<>>
                 /\ plug' = plug
                 /\ AliveTimers' = {} )
         /\ (task[t].phase = "cancelled" /\ task[t].cmds = <<>>)
            => ( \/ task'[t] = task[t]
                 \/ UpdateStep /\ timer' = t /\ task'[t].phase = "sleep"
                               /\ task'[t].cmds = <<>> )
      ]_vars

\* Only one timer was ever started, a 10 s one, and a playing sample cancelled
\* it in its sleep.
C1_Witness ==
    /\ state = "ACTIVE" /\ timer = 0 /\ BetweenUpdates
    /\ ~sample.muted /\ ~sample.stream_idle
    /\ task[1].phase = "cancelled" /\ task[1].timeout = ShortTimeout
    /\ task[1].cmds = <<>>
    /\ \A t \in Timers \ {1} : task[t] = Unused
    /\ AllOn

\* C2: between two update() calls, ACTIVE means every outlet is on, as long as
\* no outlet command has failed.
C2_ActiveMeansAllOn ==
    (BetweenUpdates /\ state = "ACTIVE" /\ ~cmdFailed) => AllOn

\* C3: a sequence that has issued its first command is never aborted by an
\* update(): a power-down in flight is not cancelled, and a power-up in
\* progress goes on to command every outlet and to set ACTIVE (it ends early
\* only by a command raising).
C3_RunsToCompletion ==
    [][ /\ \A t \in Timers :
              InFlight(task[t]) => task'[t].phase \in {"turn_off", "settle", "done", "failed"}
        /\ loop.pc \in {"turn_on", "settle"}
              => \/ loop'.pc \in {"turn_on", "settle", "crashed"}
                 \/ loop'.pc = "sleep" /\ Len(loop'.cmds) = NumPlugs /\ state' = "ACTIVE"
      ]_vars

\* C4: at most one timer task is outstanding (sleeping or running _turn_off),
\* and it is the one self._timer refers to.
C4_AtMostOneTimer ==
    /\ Cardinality(AliveTimers) <= 1
    /\ \A t \in AliveTimers : timer = t

\* The stream-idle path has replaced the 60 s timer of MUTE by a 10 s timer.
C4_Witness ==
    /\ state = "IDLE_COUNTDOWN" /\ timer = 2
    /\ task[2].phase = "sleep" /\ task[2].timeout = ShortTimeout
    /\ task[1].phase = "cancelled" /\ task[1].timeout = LongTimeout

\* C5: two _turn_off sequences are never in flight together, no _turn_off is in
\* flight while _turn_on runs, and update() starts _turn_on only when none is.
C5_NoOverlap ==
    /\ [](Cardinality(InFlightTimers) <= 1)
    /\ [](loop.pc \in {"turn_on", "settle"} => InFlightTimers = {})
    /\ [][(UpdateStep /\ loop'.pc = "turn_on") => InFlightTimers = {}]_vars

\* A power-up has begun after a power-down ran to its end.
C5_Witness ==
    /\ loop.pc = "turn_on" /\ loop.idx = 1
    /\ \E t \in Timers : task[t].phase = "done"

\* C6: a power-up commands the outlets 1..N in chain order and a power-down
\* that completes commands them N..1; each command after the first is issued
\* only when the one before has returned and its settle delay has run out.
C6_SequencingOrder ==
    /\ [](/\ ChainOrder(loop.cmds)
          /\ \A t \in Timers :
                /\ ReverseOrder(task[t].cmds)
                /\ task[t].phase = "done" => Len(task[t].cmds) = NumPlugs)
    /\ [][ /\ (loop.pc \in {"turn_on", "settle"} /\ loop'.pc = "sleep")
                => Len(loop.cmds) = NumPlugs
           /\ (loop.pc # "sleep" /\ loop'.cmds # loop.cmds)
                => ( /\ loop.pc = "settle" /\ loop.left = 0
                     /\ plug[loop.cmds[Len(loop.cmds)]] = "on"
                     /\ Len(loop'.cmds) = Len(loop.cmds) + 1 )
           /\ \A t \in Timers :
                (task[t].cmds # <<>> /\ task'[t].cmds # task[t].cmds /\ task'[t].cmds # <<>>)
                => ( /\ task[t].phase = "settle" /\ task[t].left = 0
                     /\ plug[task[t].cmds[Len(task[t].cmds)]] = "off"
                     /\ Len(task'[t].cmds) = Len(task[t].cmds) + 1 )
         ]_vars

\* A power-up and, later, a power-down have both run to their end.
C6_Witness ==
    /\ state = "IDLE" /\ AllOff
    /\ Len(loop.cmds) = NumPlugs
    /\ \E t \in Timers : task[t].phase = "done" /\ Len(task[t].cmds) = NumPlugs

\* C7: an update() whose sample is muted and stream-idle never leaves the
\* state MUTE and never starts a 60 s timer; from ACTIVE or MUTE it sets
\* IDLE_COUNTDOWN, cancels a pending 60 s timer and starts a 10 s timer.
C7_StreamIdleDominates ==
    [][ (UpdateStep /\ sample'.muted /\ sample'.stream_idle)
        => ( /\ state' # "MUTE"
             /\ \A t \in Timers : ~Started(t, LongTimeout)
             /\ state \in {"ACTIVE", "MUTE"}
                  => ( /\ state' = "IDLE_COUNTDOWN"
                       /\ timer' # 0 /\ Started(timer', ShortTimeout)
                       /\ \A t \in Timers :
                            (Alive(task[t]) /\ task[t].timeout = LongTimeout)
                               => task'[t].phase = "cancelled" ) )
      ]_vars

\* A muted and stream-idle sample has taken MUTE to IDLE_COUNTDOWN.
C7_Witness ==
    /\ state = "IDLE_COUNTDOWN" /\ timer = 2
    /\ sample.muted /\ sample.stream_idle
    /\ task[2].phase = "sleep" /\ task[2].timeout = ShortTimeout
    /\ task[2].left = ShortTimeout * TicksPerSecond
    /\ task[1].phase = "cancelled" /\ task[1].timeout = LongTimeout

\* C8: an update() with a stream-idle sample in IDLE_COUNTDOWN changes neither
\* the state, nor the timer reference, nor any timer task (its remaining delay
\* included), nor any outlet.
C8_IdleCountdownNoop ==
    [][ (UpdateStep /\ sample'.stream_idle /\ state = "IDLE_COUNTDOWN")
        => ( /\ UNCHANGED <<state, timer, task, plug>>
             /\ loop'.pc = "sleep" )
      ]_vars

\* A stream-idle update() has just returned in IDLE_COUNTDOWN with the 10 s
\* timer part-way through its delay.
C8_Witness ==
    /\ state = "IDLE_COUNTDOWN" /\ sample.stream_idle
    /\ loop.pc = "sleep" /\ loop.left = PollTicks
    /\ timer # 0 /\ task[timer].phase = "sleep"
    /\ task[timer].left < ShortTimeout * TicksPerSecond - PollTicks
    /\ task[timer].left > 0

PoweredDown ==
    /\ state = "IDLE" /\ timer = 0 /\ AllOff /\ AliveTimers = {}
    /\ \E t \in Timers :
          /\ task[t].phase = "done"
          /\ Len(task[t].cmds) = NumPlugs /\ ReverseOrder(task[t].cmds)

\* C9: from IDLE_COUNTDOWN, if every sample from then on is stream-idle and no
\* outlet command fails, the power-down eventually completes (every outlet
\* off, commanded in reverse chain order, state IDLE, timer reference None)
\* and the system stays so.
C9_CountdownCompletes ==
    []( (state = "IDLE_COUNTDOWN" /\ [](sample.stream_idle) /\ []~cmdFailed)
        => <>[]PoweredDown )

\* The 10 s timer has fired and run _turn_off to its end under idle samples.
C9_Witness ==
    /\ PoweredDown /\ sample.stream_idle /\ ~cmdFailed
    /\ \E t \in Timers : task[t].phase = "done" /\ task[t].timeout = ShortTimeout

\* C10: after a turn_off has failed in the shutdown timer's task, an update()
\* whose sample is still idle (stream-idle in IDLE_COUNTDOWN, muted in MUTE)
\* starts a new shutdown timer.
C10_RetryAfterFailure ==
    [][ ( /\ UpdateStep
          /\ timer # 0 /\ task[timer].phase = "failed"
          /\ \/ state = "IDLE_COUNTDOWN" /\ sample'.stream_idle
             \/ state = "MUTE" /\ sample'.muted )
        => AliveTimers' # {}
      ]_vars

\* No outlet is on (each is off, or untouched since the controller was built).
NoneOn == \A p \in Plugs : plug[p] # "on"

\* Timer t issues a turn_off in this step.
IssuesTurnOff(t) == task'[t].cmds # task[t].cmds /\ task'[t].cmds # <<>>

\* The step starts timer t with the full delay of `timeout` seconds ahead.
StartsTimer(t, timeout) ==
    /\ task'[t] # task[t]
    /\ task'[t].phase = "sleep" /\ task'[t].timeout = timeout
    /\ task'[t].left = timeout * TicksPerSecond /\ task'[t].cmds = <<>>

\* The step issues no outlet command and update() has returned.
NoOutletCommand ==
    /\ loop'.pc = "sleep" /\ loop'.cmds = loop.cmds
    /\ \A t \in Timers : ~IssuesTurnOff(t)

\* C11: a turn_on that fails during the power-up inside update() does not end
\* the polling loop of run(): the loop is never terminated.
C11_LoopSurvivesTurnOnFailure == loop.pc # "crashed"

\* C12: after an outlet command has failed partway through a power-down, the
\* state is not IDLE, and an update() does not move the state to ACTIVE while
\* some outlet is not on (no power-up has completed since the abort); after
\* an aborted power-up the state is not ACTIVE.
C12_NoCompletionAfterAbort ==
    /\ [](loop.pc = "crashed" => state # "ACTIVE")
    /\ []((timer # 0 /\ task[timer].phase = "failed") => state # "IDLE")
    /\ [][ (timer # 0 /\ task[timer].phase = "failed" /\ state' = "ACTIVE")
           => AllOn' ]_vars

\* C13: whenever no update() call is in progress (run() is in its polling
\* sleep, or update() has ended by raising) and the state is IDLE, no outlet
\* is on, the timer reference is None and no timer task is alive.
C13_IdleMeansAllOff ==
    (loop.pc \in {"sleep", "crashed"} /\ state = "IDLE")
    => (NoneOn /\ timer = 0 /\ AliveTimers = {})

\* C14: an update() that leaves ACTIVE or MUTE on a stream-idle sample starts
\* exactly one timer, of 10 s, and sets IDLE_COUNTDOWN; one that leaves ACTIVE
\* or IDLE_COUNTDOWN on a muted-only sample cancels the pending timer, starts
\* exactly one timer, of 60 s, and sets MUTE; neither issues an outlet
\* command.  A turn_off is issued only by the timer started last, and its
\* first one only when that timer's whole delay has run out.
C14_TimerStartAndDelay ==
    [][ /\ (UpdateStep /\ sample'.stream_idle /\ state \in {"ACTIVE", "MUTE"})
           => ( /\ state' = "IDLE_COUNTDOWN" /\ timer' # 0
                /\ AliveTimers' = {timer'}
                /\ \A t \in Timers : StartsTimer(t, ShortTimeout) <=> t = timer'
                /\ NoOutletCommand )
        /\ (UpdateStep /\ sample'.muted /\ ~sample'.stream_idle
                       /\ state \in {"ACTIVE", "IDLE_COUNTDOWN"})
           => ( /\ state' = "MUTE" /\ timer' # 0
                /\ AliveTimers' = {timer'}
                /\ \A t \in AliveTimers : task'[t].phase = "cancelled"
                /\ \A t \in Timers : StartsTimer(t, LongTimeout) <=> t = timer'
                /\ NoOutletCommand )
        /\ \A t \in Timers :
             IssuesTurnOff(t)
             => ( /\ timer = t
                  /\ task[t].phase = "sleep" => task[t].left = 0
                  /\ task[t].phase # "sleep" => task[t].phase = "settle" )
      ]_vars

\* A muted-only sample has just replaced the 10 s timer of IDLE_COUNTDOWN by a
\* 60 s timer.
C14_Witness ==
    /\ state = "MUTE" /\ timer = 2 /\ sample.muted /\ ~sample.stream_idle
    /\ task[2].phase = "sleep" /\ task[2].timeout = LongTimeout
    /\ task[2].left = LongTimeout * TicksPerSecond
    /\ task[1].phase = "cancelled" /\ task[1].timeout = ShortTimeout
    /\ AllOn

\* C15: if from some point on every sample is idle (muted or stream-idle) and
\* no outlet command fails, the outlets are eventually all off with the state
\* IDLE, and stay so.
C15_IdleEventuallyPowersDown ==
    (<>[](sample.muted \/ sample.stream_idle) /\ []~cmdFailed)
    => <>[](state = "IDLE" /\ NoneOn)

\* C16: between two update() calls and as long as no outlet command has
\* failed, the timer reference is set exactly in IDLE_COUNTDOWN and MUTE.
C16_TimerIffCountingDown ==
    (BetweenUpdates /\ ~cmdFailed)
    => (timer # 0 <=> state \in {"IDLE_COUNTDOWN", "MUTE"})

\* _turn_off has run to its end and has dropped the timer reference.
C16_Witness ==
    /\ BetweenUpdates /\ ~cmdFailed /\ state = "IDLE" /\ timer = 0
    /\ \E t \in Timers : task[t].phase = "done"

\* Both programs have processed the same samples: no update() is in progress
\* and the proxy has set its status from a synchronized client.
SameSamplesProcessed == BetweenUpdates /\ proxy.synced

\* C17: fed the same samples (client in a group, no outlet command failed),
\* after each processed sample the proxy's status is Playing exactly when the
\* controller is ACTIVE, which is exactly when the sample is neither muted nor
\* stream-idle; it is Stopped for a stream-idle sample and Paused for a muted
\* sample whose stream is not idle.
C17_ProxyMirrorsController ==
    (SameSamplesProcessed /\ ~cmdFailed) =>
        /\ (playback_status = "Playing") <=> (state = "ACTIVE")
        /\ (state = "ACTIVE") <=> (~sample.muted /\ ~sample.stream_idle)
        /\ sample.stream_idle => playback_status = "Stopped"
        /\ (sample.muted /\ ~sample.stream_idle) => playback_status = "Paused"

\* Playing, muted, playing again: the proxy went Playing, Paused, Playing and
\* the controller is ACTIVE again with every outlet on.
C17_Witness ==
    /\ SameSamplesProcessed /\ ~cmdFailed
    /\ signals = <<"Playing", "Paused", "Playing">>
    /\ playback_status = "Playing"
    /\ state = "ACTIVE" /\ AllOn
    /\ ~sample.muted /\ ~sample.stream_idle

\* The proxy is on the reconnect path: server.status() gave no dict and
\* _reconnect() has not returned.
Reconnecting == proxy.pc \in {"reconnect", "backoff"}

\* C18: PropertiesChanged is emitted exactly when the assigned status differs
\* from the stored one: two consecutive emitted values are never equal, the
\* last emitted value is the stored status (Stopped while nothing was
\* emitted), a step changes the emitted values exactly when it changes the
\* stored status and then emits the new status once, and a failed status
\* fetch with its reconnect path changes neither.
C18_EmitsOnChangeOnly ==
    /\ [](\A i \in 1..(Len(signals) - 1) : signals[i] # signals[i + 1])
    /\ [](playback_status = IF signals = <<>> THEN "Stopped" ELSE signals[Len(signals)])
    /\ [][ /\ (signals' # signals) <=> (playback_status' # playback_status)
           /\ (signals' # signals) => signals' = Emit(signals, playback_status')
           /\ (Reconnecting \/ Reconnecting') => UNCHANGED <<playback_status, signals>> ]_vars

\* Two signals were emitted, Playing then Paused, and then a status fetch
\* failed: the proxy waits in _reconnect() with the status still Paused.
C18_Witness ==
    /\ proxy.pc = "backoff" /\ proxy.synced
    /\ signals = <<"Playing", "Paused">>
    /\ playback_status = "Paused"
    /\ client = [group |-> "playing", muted |-> TRUE]
====
